---- MODULE Spec2Model ----
(***************************************************************************)
(* Model of locust/locustfile.py: the RedisCompareUser load-test profile.  *)
(* Each session (one RedisCompareUser instance) runs on_start once and     *)
(* then repeatedly runs one of its seven tasks.  Every task issues one     *)
(* HTTP request and classifies the response inside a catch_response        *)
(* context.  The server is the environment: it answers every request with  *)
(* an arbitrary status code and body.                                      *)
(***************************************************************************)
EXTENDS Integers, Sequences, FiniteSets, TLC

\* ------------------------------------------------------------------ bounds
NumSessions == 2
MaxTasks == 2

Sessions == 1..NumSessions

\* --------------------------------------------------------- environment sets
\* os.getenv("USER_ID", "123")
UserIdValues == {"123", "u-7"}
\* int(os.getenv("WITHDRAW_AMOUNT", "3")): 3 is the default, the others are
\* configurations near, at and below the floor of 1.
AmountValues == {-2, 0, 1, 2, 3}
\* int(os.getenv("AMOUNT_JITTER", "0")): negative, zero (default), positive.
JitterValues == {-1, 0, 1, 2}
\* os.getenv("INIT_BALANCE"): unset (None), set to the empty string, set.
None == "<None>"
InitBalanceValues == {None, "", "100"}

\* The defaults of lines 6 and 7.
DefaultAmount == 3
DefaultJitter == 0

\* What the server may answer: a 200 with any body (not JSON, a JSON list, a
\* JSON object without and with a status field), an error status with an
\* error page or with a JSON object.
StatusCodes == {200, 404, 500}
Bodies == {"<html>", "[1]", "{}", "{status:insufficient}"}
Responses ==
    {[status_code |-> 200, body |-> b] : b \in Bodies}
    \cup {[status_code |-> c, body |-> b] :
            c \in StatusCodes \ {200}, b \in {"<html>", "{status:insufficient}"}}

VARIABLES
    BASE_USER_ID,   \* module constant, line 5
    AMOUNT,         \* module constant, line 6
    AMOUNT_JITTER,  \* module constant, line 7
    INIT_BALANCE,   \* the process environment read by on_start
    users,          \* the sessions the harness has spawned
    pc,             \* pc[s]: "created" before on_start, "running" after
    invocations,    \* invocations[s]: task invocations of session s so far
    requests,       \* requests[s]: HTTP requests session s has issued
    inits,          \* inits[s]: POST /init requests session s has issued
    last            \* the most recent request, its response and its report

config == <<BASE_USER_ID, AMOUNT, AMOUNT_JITTER, INIT_BALANCE>>
vars == <<BASE_USER_ID, AMOUNT, AMOUNT_JITTER, INIT_BALANCE,
          users, pc, invocations, requests, inits, last>>

\* ----------------------------------------------------------- pure helpers
max(a, b) == IF a >= b THEN a ELSE b

Digit(d) == CASE d = 0 -> "0" [] d = 1 -> "1" [] d = 2 -> "2" [] d = 3 -> "3"
              [] d = 4 -> "4" [] d = 5 -> "5" [] d = 6 -> "6" [] d = 7 -> "7"
              [] d = 8 -> "8" [] d = 9 -> "9"

\* str(n) of a non-negative integer, as the sequence of its decimal digits.
RECURSIVE str(_)
str(n) == IF n < 10 THEN <<Digit(n)>> ELSE str(n \div 10) \o <<Digit(n % 10)>>

\* Variant: the message without the status code.
HttpMessage_no_code(status_code) == <<"H", "T", "T", "P">>

\* f"HTTP {resp.status_code}"
HttpMessage(status_code) == <<"H", "T", "T", "P", " ">> \o str(status_code)

\* resp.json(): the parsed body, or the exception json() raises.
json(body) ==
    CASE body = "{status:insufficient}" -> [raises |-> None, type |-> "dict", status |-> "insufficient"]
      [] body = "{}"                    -> [raises |-> None, type |-> "dict", status |-> None]
      [] body = "[1]"                   -> [raises |-> None, type |-> "list", status |-> None]
      [] OTHER                          -> [raises |-> "JSONDecodeError", type |-> None, status |-> None]

\* data.get("status", "unknown"): only a dict has .get.
get_status(data) ==
    IF data.type # "dict" THEN [raises |-> "AttributeError", value |-> None]
    ELSE [raises |-> None,
          value |-> IF data.status = None THEN "unknown" ELSE data.status]

\* ------------------------------------------- the catch_response context
\* A response as the with-block sees it: nothing marked yet.
Response(status_code, body) ==
    [status_code |-> status_code, body |-> body,
     manual_result |-> None, message |-> << >>, parsed |-> FALSE]

\* resp.failure(msg)
failure(resp, msg) == [resp EXCEPT !.manual_result = "failure", !.message = msg]

\* resp.success()
success(resp) == [resp EXCEPT !.manual_result = "success"]

\* Leaving the with-block.  A manual mark is reported as it is; an exception
\* that is not a response error is re-raised and nothing is reported;
\* without either, the status code decides.
exit(resp, raised) ==
    IF resp.manual_result # None
    THEN [reports |-> 1, outcome |-> resp.manual_result, message |-> resp.message, raised |-> raised]
    ELSE IF raised # None
    THEN [reports |-> 0, outcome |-> None, message |-> << >>, raised |-> raised]
    ELSE [reports |-> 1,
          outcome |-> IF resp.status_code >= 400 \/ resp.status_code = 0 THEN "failure" ELSE "success",
          message |-> << >>, raised |-> None]

\* The record kept of one request.
Sent(method, path, name, params, resp, report) ==
    [method |-> method, path |-> path, name |-> name, params |-> params,
     status_code |-> resp.status_code, body |-> resp.body, parsed |-> resp.parsed,
     reports |-> report.reports, outcome |-> report.outcome,
     message |-> report.message, raised |-> report.raised]

NoRequest ==
    [method |-> None, path |-> None, name |-> None, params |-> [userId |-> None],
     status_code |-> 0, body |-> None, parsed |-> FALSE,
     reports |-> 0, outcome |-> None, message |-> << >>, raised |-> None]

\* ------------------------------------------------------------------- Init
\* The state once the module is imported and the sessions are constructed.
Constructed ==
    /\ pc = [s \in Sessions |-> "created"]
    /\ invocations = [s \in Sessions |-> 0]
    /\ requests = [s \in Sessions |-> 0]
    /\ inits = [s \in Sessions |-> 0]
    /\ last = NoRequest

\* One session under every configuration of the environment.
InitRequest ==
    /\ BASE_USER_ID \in UserIdValues
    /\ AMOUNT \in AmountValues
    /\ AMOUNT_JITTER \in JitterValues
    /\ INIT_BALANCE \in InitBalanceValues
    /\ users = {1}
    /\ Constructed

\* All the sessions, concurrently, under the default amount and jitter.
InitSessions ==
    /\ BASE_USER_ID \in UserIdValues
    /\ AMOUNT = DefaultAmount
    /\ AMOUNT_JITTER = DefaultJitter
    /\ INIT_BALANCE \in InitBalanceValues
    /\ users = Sessions
    /\ Constructed

\* ---------------------------------------------------------------- on_start
\* Variant: POST /init whether or not a balance is configured.
on_start_always(s) ==
    /\ s \in users
    /\ pc[s] = "created"
    /\ pc' = [pc EXCEPT ![s] = "running"]
    /\ \E r \in Responses :
         LET resp == Response(r.status_code, r.body) IN
         /\ last' = Sent("POST", "/init", "/init",
                         [userId |-> BASE_USER_ID, balance |-> INIT_BALANCE],
                         resp, exit(resp, None))
         /\ requests' = [requests EXCEPT ![s] = @ + 1]
         /\ inits' = [inits EXCEPT ![s] = @ + 1]
    /\ UNCHANGED <<config, users, invocations>>

\* if init_balance: an unset variable and the empty string are both falsy.
truthy(v) == v # None /\ v # ""

on_start(s) ==
    /\ s \in users
    /\ pc[s] = "created"
    /\ pc' = [pc EXCEPT ![s] = "running"]
    /\ IF truthy(INIT_BALANCE)
       THEN \E r \in Responses :
              LET resp == Response(r.status_code, r.body) IN
              /\ last' = Sent("POST", "/init", "/init",
                              [userId |-> BASE_USER_ID, balance |-> INIT_BALANCE],
                              resp, exit(resp, None))
              /\ requests' = [requests EXCEPT ![s] = @ + 1]
              /\ inits' = [inits EXCEPT ![s] = @ + 1]
       ELSE UNCHANGED <<last, requests, inits>>
    /\ UNCHANGED <<config, users, invocations>>

\* -------------------------------------------------------------------- _hit
\* The with-block of _hit: the response after the block, and what escaped it.
hit_block(resp) ==
    IF resp.status_code # 200
    THEN [resp |-> failure(resp, HttpMessage(resp.status_code)), raised |-> None]
    ELSE LET parsed == [resp EXCEPT !.parsed = TRUE]
             data == json(resp.body)
         IN  IF data.raises # None
             THEN [resp |-> parsed, raised |-> data.raises]
             ELSE IF get_status(data).raises # None
             THEN [resp |-> parsed, raised |-> get_status(data).raises]
             ELSE [resp |-> success(parsed), raised |-> None]

\* Variant: the jitter without the floor at 1.
amounts_no_floor ==
    IF AMOUNT_JITTER > 0
    THEN {AMOUNT + r : r \in (-AMOUNT_JITTER)..AMOUNT_JITTER}
    ELSE {AMOUNT}

\* Variant: the jitter branch taken whatever the jitter bound is.
amounts_always_jitter ==
    {max(1, AMOUNT + r) : r \in (-AMOUNT_JITTER)..AMOUNT_JITTER}

\* The amounts _hit may compute: AMOUNT, or with a positive jitter
\* max(1, AMOUNT + random.randint(-AMOUNT_JITTER, AMOUNT_JITTER)).
amounts ==
    IF AMOUNT_JITTER > 0
    THEN {max(1, AMOUNT + r) : r \in (-AMOUNT_JITTER)..AMOUNT_JITTER}
    ELSE {AMOUNT}

\* Variant: a request that failed is sent a second time.
_hit_retry(s, path, name) ==
    /\ s \in users
    /\ pc[s] = "running"
    /\ invocations[s] < MaxTasks
    /\ \E amt \in amounts, r1 \in Responses, r2 \in Responses :
         LET first == hit_block(Response(r1.status_code, r1.body))
             retried == first.resp.manual_result = "failure"
             after == IF retried THEN hit_block(Response(r2.status_code, r2.body))
                      ELSE first
         IN  /\ last' = Sent("POST", path, name,
                             [userId |-> BASE_USER_ID, amount |-> amt],
                             after.resp, exit(after.resp, after.raised))
             /\ requests' = [requests EXCEPT ![s] = IF retried THEN @ + 2 ELSE @ + 1]
    /\ invocations' = [invocations EXCEPT ![s] = @ + 1]
    /\ UNCHANGED <<config, users, pc, inits>>

\* Variant: a failure is remembered and marks the next withdrawal too.
_hit_sticky(s, path, name) ==
    /\ s \in users
    /\ pc[s] = "running"
    /\ invocations[s] < MaxTasks
    /\ \E amt \in amounts, r \in Responses :
         LET own == hit_block(Response(r.status_code, r.body))
             after == IF last.outcome = "failure" /\ own.raised = None
                      THEN [resp |-> failure(own.resp, HttpMessage(r.status_code)),
                            raised |-> None]
                      ELSE own
         IN  last' = Sent("POST", path, name,
                          [userId |-> BASE_USER_ID, amount |-> amt],
                          after.resp, exit(after.resp, after.raised))
    /\ requests' = [requests EXCEPT ![s] = @ + 1]
    /\ invocations' = [invocations EXCEPT ![s] = @ + 1]
    /\ UNCHANGED <<config, users, pc, inits>>

_hit(s, path, name) ==
    /\ s \in users
    /\ pc[s] = "running"
    /\ invocations[s] < MaxTasks
    /\ \E amt \in amounts, r \in Responses :
         LET after == hit_block(Response(r.status_code, r.body)) IN
         last' = Sent("POST", path, name,
                      [userId |-> BASE_USER_ID, amount |-> amt],
                      after.resp, exit(after.resp, after.raised))
    /\ requests' = [requests EXCEPT ![s] = @ + 1]
    /\ invocations' = [invocations EXCEPT ![s] = @ + 1]
    /\ UNCHANGED <<config, users, pc, inits>>

withdraw_watch(s) == _hit(s, "/withdraw_watch", "withdraw_watch")

withdraw_lock_lua(s) == _hit(s, "/withdraw_lock_lua", "withdraw_lock_lua")

withdraw_custom_token_lock(s) ==
    _hit(s, "/withdraw_custom_token_lock", "withdraw_custom_token_lock")

withdraw_custom_lock(s) == _hit(s, "/withdraw_custom_lock", "withdraw_custom_lock")

withdraw_medallion_distributed_lock(s) ==
    _hit(s, "/withdraw_medallion_distributed_lock", "withdraw_medallion_distributed_lock")

\* ------------------------------------------------------------ check_balance
\* Variant: only a 200 is a success.
balance_block_404_fails(resp) ==
    IF resp.status_code = 200 THEN success(resp)
    ELSE failure(resp, HttpMessage(resp.status_code))

balance_block(resp) ==
    IF resp.status_code = 200 THEN success(resp)
    ELSE IF resp.status_code = 404 THEN success(resp)
    ELSE failure(resp, HttpMessage(resp.status_code))

check_balance(s) ==
    /\ s \in users
    /\ pc[s] = "running"
    /\ invocations[s] < MaxTasks
    /\ \E r \in Responses :
         LET resp == balance_block(Response(r.status_code, r.body)) IN
         last' = Sent("GET", "/balance", "/balance", [userId |-> BASE_USER_ID],
                      resp, exit(resp, None))
    /\ requests' = [requests EXCEPT ![s] = @ + 1]
    /\ invocations' = [invocations EXCEPT ![s] = @ + 1]
    /\ UNCHANGED <<config, users, pc, inits>>

\* ------------------------------------------------------------- health_check
\* Variant: a 404 is accepted, as check_balance accepts it.
health_block_404_ok(resp) ==
    IF resp.status_code = 200 THEN success(resp)
    ELSE IF resp.status_code = 404 THEN success(resp)
    ELSE failure(resp, HttpMessage(resp.status_code))

health_block(resp) ==
    IF resp.status_code = 200 THEN success(resp)
    ELSE failure(resp, HttpMessage(resp.status_code))

\* health_check passes no params.
no_params == [p \in {} |-> None]

health_check(s) ==
    /\ s \in users
    /\ pc[s] = "running"
    /\ invocations[s] < MaxTasks
    /\ \E r \in Responses :
         LET resp == health_block(Response(r.status_code, r.body)) IN
         last' = Sent("GET", "/health", "/health", no_params,
                      resp, exit(resp, None))
    /\ requests' = [requests EXCEPT ![s] = @ + 1]
    /\ invocations' = [invocations EXCEPT ![s] = @ + 1]
    /\ UNCHANGED <<config, users, pc, inits>>

\* --------------------------------------------------------------------- Next
Next ==
    \E s \in Sessions :
        \/ on_start(s)
        \/ withdraw_watch(s)
        \/ withdraw_lock_lua(s)
        \/ withdraw_custom_token_lock(s)
        \/ withdraw_custom_lock(s)
        \/ withdraw_medallion_distributed_lock(s)
        \/ check_balance(s)
        \/ health_check(s)

Spec == InitRequest /\ [][Next]_vars

SpecSessions == InitSessions /\ [][Next]_vars

\* ================================================================= claims
WithdrawNames ==
    {"withdraw_watch", "withdraw_lock_lua", "withdraw_custom_token_lock",
     "withdraw_custom_lock", "withdraw_medallion_distributed_lock"}

IsWithdrawal == last.method = "POST" /\ last.name \in WithdrawNames
IsBalance == last.method = "GET" /\ last.path = "/balance"
IsHealth == last.method = "GET" /\ last.path = "/health"
IsInit == last.method = "POST" /\ last.path = "/init"
IsTask == IsWithdrawal \/ IsBalance \/ IsHealth

\* The name each task's request is to be reported under.
EndpointName(path) ==
    CASE path = "/withdraw_watch" -> "withdraw_watch"
      [] path = "/withdraw_lock_lua" -> "withdraw_lock_lua"
      [] path = "/withdraw_custom_token_lock" -> "withdraw_custom_token_lock"
      [] path = "/withdraw_custom_lock" -> "withdraw_custom_lock"
      [] path = "/withdraw_medallion_distributed_lock" -> "withdraw_medallion_distributed_lock"
      [] path = "/balance" -> "/balance"
      [] path = "/health" -> "/health"

DigitValue(c) == CHOOSE d \in 0..9 : Digit(d) = c

\* The number a sequence of decimal digits writes.
RECURSIVE int(_)
int(ds) ==
    IF ds = << >> THEN 0
    ELSE 10 * int(SubSeq(ds, 1, Len(ds) - 1)) + DigitValue(ds[Len(ds)])

\* A JSON object, the only body _hit gets a status out of.
IsJsonObject(body) == body \in {"{}", "{status:insufficient}"}

\* ---- C1 --------------------------------------------------------------
\* C1 as stated: for every base amount and every jitter bound J >= 0, the
\* amount a withdrawal sends lies in [max(1, base-J), base+J] and is never
\* below 1.
C1_AmountInRangeAnyBase ==
    (IsWithdrawal /\ AMOUNT_JITTER >= 0) =>
        /\ last.params.amount >= max(1, AMOUNT - AMOUNT_JITTER)
        /\ last.params.amount <= AMOUNT + AMOUNT_JITTER
        /\ last.params.amount >= 1

\* C1 amended: the same for every base amount and jitter bound J >= 0 with
\* base + J >= 1 (otherwise the interval is empty).
C1_AmountInRange ==
    (IsWithdrawal /\ AMOUNT_JITTER >= 0 /\ AMOUNT + AMOUNT_JITTER >= 1) =>
        /\ last.params.amount >= max(1, AMOUNT - AMOUNT_JITTER)
        /\ last.params.amount <= AMOUNT + AMOUNT_JITTER
        /\ last.params.amount >= 1

\* The floor has acted: base 1, jitter 2, amount 1 sent.
C1_Witness ==
    /\ IsWithdrawal
    /\ AMOUNT = 1 /\ AMOUNT_JITTER = 2
    /\ last.params.amount = 1

\* ---- C2 --------------------------------------------------------------
\* C2: a withdrawal answered with status 200 is classified success whatever
\* the body is, also a body that is no JSON object or no JSON at all.
C2_Status200IsSuccess ==
    (IsWithdrawal /\ last.status_code = 200) =>
        (last.reports = 1 /\ last.outcome = "success")

\* ---- C3 --------------------------------------------------------------
\* C3: the outcome of every request of a withdrawal, balance-check or
\* health-check action is reported exactly once, as success or as failure.
C3_ReportedExactlyOnce ==
    IsTask => (last.reports = 1 /\ last.outcome \in {"success", "failure"})

\* ---- C4 --------------------------------------------------------------
\* C4: the balance check is a success exactly for status 200 and 404 and a
\* failure for every other status.
C4_BalanceClassification ==
    IsBalance =>
        /\ last.reports = 1
        /\ last.outcome = "success" <=> last.status_code \in {200, 404}
        /\ last.outcome = "failure" <=> last.status_code \notin {200, 404}

C4_Witness ==
    IsBalance /\ last.status_code = 404 /\ last.outcome = "success"

\* ---- C5 --------------------------------------------------------------
\* C5: the health check, sent without parameters, is a success exactly for
\* status 200 and a failure for every other status, 404 included.
C5_HealthClassification ==
    IsHealth =>
        /\ DOMAIN last.params = {}
        /\ last.reports = 1
        /\ last.outcome = "success" <=> last.status_code = 200
        /\ last.outcome = "failure" <=> last.status_code # 200

C5_Witness ==
    IsHealth /\ last.status_code = 404 /\ last.outcome = "failure"

\* ---- C6 --------------------------------------------------------------
\* C6: a failure of a task's request is reported under the task's endpoint
\* name with the message "HTTP <status>"; a withdrawal answered with any
\* status but 200 is such a failure, and its body is not parsed.
C6_FailureCarriesStatus ==
    /\ (IsTask /\ last.outcome = "failure") =>
          /\ last.reports = 1
          /\ last.name = EndpointName(last.path)
          /\ Len(last.message) > 5
          /\ SubSeq(last.message, 1, 5) = <<"H", "T", "T", "P", " ">>
          /\ int(SubSeq(last.message, 6, Len(last.message))) = last.status_code
    /\ (IsWithdrawal /\ last.status_code # 200) =>
          (last.outcome = "failure" /\ ~last.parsed)

C6_Witness ==
    /\ IsWithdrawal /\ last.status_code = 500
    /\ last.body = "{status:insufficient}"
    /\ last.outcome = "failure"
    /\ last.message = <<"H", "T", "T", "P", " ", "5", "0", "0">>

\* ---- C7 --------------------------------------------------------------
\* C7: a session sends POST /init, with the user identifier and the
\* balance, once and before any other request when a balance is
\* configured, and never otherwise; whatever the answer, the session goes
\* on to its tasks.
InitConfigured == INIT_BALANCE # None /\ INIT_BALANCE # ""

C7_InitOnceAndFirst ==
    /\ [](\A s \in users :
            /\ pc[s] = "created" => (requests[s] = 0 /\ inits[s] = 0)
            /\ pc[s] = "running" => inits[s] = (IF InitConfigured THEN 1 ELSE 0))
    /\ [](IsInit => last.params = [userId |-> BASE_USER_ID, balance |-> INIT_BALANCE])
    /\ [][\A s \in users :
            /\ inits'[s] # inits[s] =>
                 (requests[s] = 0 /\ requests'[s] = 1 /\ last'.path = "/init")
            /\ pc'[s] # pc[s] => pc'[s] = "running"]_vars
    /\ [](\A s \in users :
            (pc[s] = "running" /\ invocations[s] < MaxTasks) => ENABLED health_check(s))

C7_Witness ==
    \E s \in users :
        /\ inits[s] = 1 /\ invocations[s] = 1 /\ requests[s] = 2
        /\ \A t \in users \ {s} : pc[t] = "created"
        /\ IsTask

\* ---- C9 --------------------------------------------------------------
\* C9: every task invocation sends exactly one request, so a session has
\* sent as many requests as it has run tasks, plus at most one /init.
C9_OneRequestPerInvocation ==
    \A s \in users :
        /\ inits[s] <= 1
        /\ requests[s] = invocations[s] + inits[s]

\* A session whose only task failed, and which has sent that one request.
C9_Witness ==
    \E s \in users :
        /\ invocations[s] = 1 /\ requests[s] = 1 + inits[s]
        /\ \A t \in users \ {s} : pc[t] = "created"
        /\ IsWithdrawal /\ last.outcome = "failure"

\* ---- C8 --------------------------------------------------------------
\* C8: with a jitter bound of 0 or less a withdrawal sends exactly the
\* base amount.
C8_NoJitterSendsBase ==
    (IsWithdrawal /\ AMOUNT_JITTER <= 0) => last.params.amount = AMOUNT

C8_Witness ==
    /\ IsWithdrawal /\ AMOUNT_JITTER = 0 /\ AMOUNT = 3
    /\ last.params.amount = 3

\* ---- C10 -------------------------------------------------------------
\* What a request's own response makes of it.
OwnClassification ==
    CASE IsWithdrawal ->
           IF last.status_code # 200 THEN "failure"
           ELSE IF IsJsonObject(last.body) THEN "success" ELSE None
      [] IsBalance -> IF last.status_code \in {200, 404} THEN "success" ELSE "failure"
      [] IsHealth -> IF last.status_code = 200 THEN "success" ELSE "failure"
      [] IsInit -> IF last.status_code >= 400 THEN "failure" ELSE "success"
      [] OTHER -> None

\* C10 as stated, its part about a single request: every request carries
\* the one fixed user identifier and is classified by its own response.
C10_EveryRequestCarriesUser ==
    last.method # None =>
        /\ "userId" \in DOMAIN last.params
        /\ last.params.userId = BASE_USER_ID
        /\ last.outcome = OwnClassification

\* C10 amended: no action changes the configuration, every request but
\* GET /health (which has no parameters) carries the one fixed user
\* identifier, and every request is classified by its own response.
C10_NoSharedState ==
    /\ [][BASE_USER_ID' = BASE_USER_ID /\ AMOUNT' = AMOUNT
          /\ AMOUNT_JITTER' = AMOUNT_JITTER /\ INIT_BALANCE' = INIT_BALANCE]_vars
    /\ []((last.method # None /\ ~IsHealth) =>
            ("userId" \in DOMAIN last.params /\ last.params.userId = BASE_USER_ID))
    /\ [](IsHealth => "userId" \notin DOMAIN last.params)
    /\ [](last.method # None => last.outcome = OwnClassification)

\* Two sessions have run tasks, and the last request is a withdrawal that
\* succeeded.
C10_Witness ==
    /\ \A s \in users : invocations[s] >= 1
    /\ Cardinality(users) >= 2
    /\ IsWithdrawal /\ last.outcome = "success"

====
